---- MODULE Spec2Model ----
(***************************************************************************)
(* A model of vaccine_feed_ingest/runners/al/jefferson/normalize.py:       *)
(* the detail-classification loop of normalize(), the enrichment and id    *)
(* assignment that follow it, and the id-keyed deduplication of main().    *)
(*                                                                         *)
(* Text is modelled by TLA+ strings (Len, SubSeq and \o work on them in    *)
(* TLC).  An Optional[X] field is a sequence of length 0 (None / unset) or *)
(* 1 (the value).  The regular expressions are written out as sequences of *)
(* quantified character classes and matched by a small backtracking        *)
(* matcher with Python's greedy priorities.                                *)
(***************************************************************************)
EXTENDS Integers, Sequences, FiniteSets, TLC

(***************************************************************************)
(* Characters and character classes.                                       *)
(***************************************************************************)
Digit == {"0", "1", "2", "3", "4", "5", "6", "7", "8", "9"}

UpperText == "ABCDEFGHIJKLMNOPQRSTUVWXYZ"
LowerText == "abcdefghijklmnopqrstuvwxyz"

Ch(s, i) == SubSeq(s, i, i)

Upper == {Ch(UpperText, i) : i \in 1..26}
Lower == {Ch(LowerText, i) : i \in 1..26}

\* \s of the re module (the characters a TLA+ string can hold).
WhiteSpace == {" ", "\t", "\n", "\r", "\f"}

\* Every character the model's inputs are written with.
Alphabet == Digit \cup Upper \cup Lower \cup WhiteSpace
              \cup {"#", ".", ",", "-", "(", ")", ":", "/", "'", "&"}

\* "." of the re module: any character but a line break.
Dot == Alphabet \ {"\n"}

\* [A-Za-z0-9# .,-]
StreetClass == Upper \cup Lower \cup Digit \cup {"#", " ", ".", ",", "-"}

\* [A-Za-z0-9 -]
CityClass == Upper \cup Lower \cup Digit \cup {" ", "-"}

\* [\d-]
ZipClass == Digit \cup {"-"}

(***************************************************************************)
(* Regular expressions: a sequence of items, each a character class with a *)
(* quantifier (exactly one, "?", "+", "*").                                *)
(***************************************************************************)
One(cls)  == [cls |-> cls, min |-> 1, many |-> FALSE]
Opt(cls)  == [cls |-> cls, min |-> 0, many |-> FALSE]
Plus(cls) == [cls |-> cls, min |-> 1, many |-> TRUE]
Star(cls) == [cls |-> cls, min |-> 0, many |-> TRUE]

\* A literal, one item per character.
Lit(text) == [i \in 1..Len(text) |-> One({Ch(text, i)})]

\* The characters a character stands for under re.IGNORECASE.
CaseFold(c) ==
    {c} \cup UNION {{Ch(UpperText, i), Ch(LowerText, i)} :
                      i \in {n \in 1..26 : c \in {Ch(UpperText, n), Ch(LowerText, n)}}}

LitIgnoreCase(text) == [i \in 1..Len(text) |-> One(CaseFold(Ch(text, i)))]

\* The number of characters of s from position pos on that are in cls.
RECURSIVE Run(_, _, _)
Run(s, pos, cls) ==
    IF pos <= Len(s) /\ Ch(s, pos) \in cls THEN 1 + Run(s, pos + 1, cls) ELSE 0

\* The most repetitions an item can take at pos, and the counts it may take.
MaxCount(item, s, pos) ==
    LET run == Run(s, pos, item.cls)
    IN  IF item.many THEN run ELSE IF run > 0 THEN 1 ELSE 0

Counts(item, s, pos) == item.min .. MaxCount(item, s, pos)

\* The positions at which a match of items idx, idx+1, ... of re, begun at pos, can end.
RECURSIVE MatchEnds(_, _, _, _)
MatchEnds(re, idx, s, pos) ==
    IF idx > Len(re)
    THEN {pos}
    ELSE UNION {MatchEnds(re, idx + 1, s, pos + n) : n \in Counts(re[idx], s, pos)}

\* pattern.match(s): a match at the start of s; "$" asks for the end of s.
Match(re, s, toEnd) ==
    IF toEnd THEN (Len(s) + 1) \in MatchEnds(re, 1, s, 1)
    ELSE MatchEnds(re, 1, s, 1) # {}

FinishesFrom(re, idx, s, pos, toEnd) ==
    IF toEnd THEN (Len(s) + 1) \in MatchEnds(re, idx, s, pos)
    ELSE MatchEnds(re, idx, s, pos) # {}

\* The count item idx takes in the match the backtracking matcher finds
\* first: a quantifier is greedy, so the matcher tries the largest count
\* and gives back one repetition at a time until the rest matches.
RECURSIVE GreedyCount(_, _, _, _, _, _)
GreedyCount(re, idx, s, pos, toEnd, n) ==
    IF FinishesFrom(re, idx + 1, s, pos + n, toEnd)
    THEN n
    ELSE GreedyCount(re, idx, s, pos, toEnd, n - 1)

\* The count of every item from idx on, in that match.
RECURSIVE GreedyCounts(_, _, _, _, _)
GreedyCounts(re, idx, s, pos, toEnd) ==
    IF idx > Len(re)
    THEN << >>
    ELSE LET n == GreedyCount(re, idx, s, pos, toEnd, MaxCount(re[idx], s, pos))
         IN  <<n>> \o GreedyCounts(re, idx + 1, s, pos + n, toEnd)

RECURSIVE SumTo(_, _)
SumTo(counts, idx) == IF idx = 0 THEN 0 ELSE counts[idx] + SumTo(counts, idx - 1)

\* The text of the group that spans items first..last of a matching re.
Group(re, s, toEnd, first, last) ==
    LET counts == GreedyCounts(re, 1, s, 1, toEnd)
    IN  SubSeq(s, SumTo(counts, first - 1) + 1, SumTo(counts, last))

(***************************************************************************)
(* The patterns of normalize.py.                                           *)
(***************************************************************************)
\* (\d+\s+[A-Za-z0-9# .,-]+)
STREET_ADDRESS_REGEX == <<Plus(Digit), Plus(WhiteSpace), Plus(StreetClass)>>

\* ([A-Za-z0-9 -]+)\s*,?\s*AL,?\s*([\d-]+), re.IGNORECASE
CITY_STATE_ZIP_REGEX ==
    <<Plus(CityClass), Star(WhiteSpace), Opt({","}), Star(WhiteSpace)>>
      \o LitIgnoreCase("AL")
      \o <<Opt({","}), Star(WhiteSpace), Plus(ZipClass)>>

\* \(?\d+\)?\s*\d+[ -]?\d+
PHONE_NUMBER_REGEX ==
    <<Opt({"("}), Plus(Digit), Opt({")"}), Star(WhiteSpace),
      Plus(Digit), Opt({" ", "-"}), Plus(Digit)>>

\* street , \s+ city-state-zip
COMBINED_ADDRESS_REGEX ==
    STREET_ADDRESS_REGEX \o <<One({","}), Plus(WhiteSpace)>> \o CITY_STATE_ZIP_REGEX

\* No appointments? necessary.*
DROP_IN_REGEX ==
    Lit("No appointment") \o <<Opt({"s"})>> \o Lit(" necessary") \o <<Star(Dot)>>

\* Make an appointment here.*
APPOINTMENTS_REGEX == Lit("Make an appointment here") \o <<Star(Dot)>>

\* (Alabama Department of Public Health \(ADPH\)|Centers for Disease Control \(CDC\)):?
IGNORE_REGEX_ADPH ==
    Lit("Alabama Department of Public Health (ADPH)") \o <<Opt({":"})>>
IGNORE_REGEX_CDC ==
    Lit("Centers for Disease Control (CDC)") \o <<Opt({":"})>>

\* .*Locations to be determined.*
IGNORE_NAME_REGEX ==
    <<Star(Dot)>> \o Lit("Locations to be determined") \o <<Star(Dot)>>

\* detail.strip(" \t\n\r,")
StripChars == {" ", "\t", "\n", "\r", ","}

RECURSIVE LStrip(_)
LStrip(s) == IF Len(s) > 0 /\ Ch(s, 1) \in StripChars THEN LStrip(Tail(s)) ELSE s

RECURSIVE RStrip(_)
RStrip(s) ==
    IF Len(s) > 0 /\ Ch(s, Len(s)) \in StripChars
    THEN RStrip(SubSeq(s, 1, Len(s) - 1))
    ELSE s

Strip(s) == RStrip(LStrip(s))

(***************************************************************************)
(* Values.  An Optional[X] is None (<< >>) or Some(x) (<<x>>); a list is a *)
(* sequence.  Python's truth test depends on the type of the value.        *)
(***************************************************************************)
None == << >>
Some(v) == <<v>>

\* A str is true when it is not None and not empty.
TruthyText(o) == o # None /\ o[1] # ""
\* A list is true when it is not None and not empty.
TruthyList(o) == o # None /\ o[1] # << >>
\* A schema object (Address, Availability, ...) is true whenever it is not None.
TruthyModel(o) == o # None

RECURSIVE Join(_)
Join(texts) == IF texts = << >> THEN "" ELSE Head(texts) \o Join(Tail(texts))

\* schema.Contact(contact_type=..., phone=..., website=...)
Contact(contact_type, phone, website) ==
    [contact_type |-> contact_type, phone |-> phone, website |-> website]

\* schema.Address(street1=..., city=..., state=..., zip=...)
Address(street1, city, state, zip) ==
    [street1 |-> street1, city |-> city, state |-> state, zip |-> zip]

\* schema.Availability()
Availability == [drop_in |-> None, appointments |-> None]

(***************************************************************************)
(* The collaborators of vaccine_feed_ingest.utils.normalize.               *)
(***************************************************************************)
RECURSIVE DigitsOf(_)
DigitsOf(s) ==
    IF Len(s) = 0 THEN ""
    ELSE (IF Ch(s, 1) \in Digit THEN Ch(s, 1) ELSE "") \o DigitsOf(Tail(s))

FormatPhone(number) ==
    "(" \o SubSeq(number, 1, 3) \o ") " \o SubSeq(number, 4, 6) \o "-"
      \o SubSeq(number, 7, 10)

\* normalize_phone(text, contact_type) -> sequence of Contact: zero or more
\* contacts, here one for every full ten-digit number the text holds.
normalize_phone(raw_phone, contact_type) ==
    LET digits == DigitsOf(raw_phone)
    IN  [n \in 1..(Len(digits) \div 10) |->
           Contact(contact_type,
                   Some(FormatPhone(SubSeq(digits, 10 * n - 9, 10 * n))),
                   None)]

\* normalize_zip(text) -> text: the five-digit code of a ZIP or ZIP+4,
\* any other text as it is.
normalize_zip(zipc) ==
    IF Run(zipc, 1, Digit) >= 5 THEN SubSeq(zipc, 1, 5) ELSE zipc

\* normalize_url(text) -> URL-or-none: a structured URL (its text and its
\* host) if the text parses as scheme://host..., else None.
normalize_url(url) ==
    LET scheme == IF Len(url) >= 8 /\ SubSeq(url, 1, 8) = "https://" THEN 8
                  ELSE IF Len(url) >= 7 /\ SubSeq(url, 1, 7) = "http://" THEN 7
                  ELSE 0
        hostLen == Run(url, scheme + 1, Alphabet \ (WhiteSpace \cup {"/"}))
    IN  IF scheme > 0 /\ hostLen > 0
        THEN Some([url |-> url, host |-> SubSeq(url, scheme + 1, scheme + hostLen)])
        ELSE None

(***************************************************************************)
(* Placeholders, sources and ids.                                          *)
(***************************************************************************)
_SOURCE_NAME == "al_jefferson"

_make_placeholder_source(e) ==
    [source |-> _SOURCE_NAME,
     id |-> "PLACEHOLDER",
     fetched_from_uri |-> e.fetched_from_uri,
     fetched_at |-> None,
     published_at |-> e.published_at,
     data |-> e]

_make_site_id(source) == source.source \o ":" \o source.id

_make_placeholder_location(e) ==
    LET source == _make_placeholder_source(e)
    IN  [id |-> _make_site_id(source),
         source |-> source,
         name |-> None,
         address |-> None,
         contact |-> None,
         availability |-> None,
         notes |-> None,
         parent_organization |-> None]

\* sites.append(current_site); return a fresh placeholder.
_start_new_site(cur, done, e) ==
    [current_site |-> _make_placeholder_location(e),
     sites |-> Append(done, cur)]

\* The md5 hex digest of a text, kept symbolic: equal texts have equal
\* digests and different texts different ones.
Md5HexDigest(text) == "md5(" \o text \o ")"

IsTruthyText(o) == TruthyText(o)

\* md5("".join(filter(None, inputs))).hexdigest()
_md5_hash(inputs) ==
    LET kept == SelectSeq(inputs, IsTruthyText)
    IN  Md5HexDigest(Join([i \in 1..Len(kept) |-> kept[i][1]]))

\* c.website or c.phone
WebsiteOrPhone(c) ==
    IF c.website # None /\ c.website[1].url # "" THEN Some(c.website[1].url)
    ELSE c.phone

\* The candidate list of _add_id before the fallback.
NameAndAddress(site) ==
    LET a == site.address
    IN  SelectSeq(<<site.name,
                    IF a = None THEN None ELSE a[1].street1,
                    IF a = None THEN None ELSE a[1].city,
                    IF a = None THEN None ELSE a[1].state,
                    IF a = None THEN None ELSE a[1].zip>>,
                  IsTruthyText)

\* _add_id hashing the contacts along with the name and the address.
_add_id_all(site) ==
    LET first == NameAndAddress(site)
        failed == site.contact = None
        candidate_data ==
            first \o [i \in 1..Len(site.contact[1]) |->
                        WebsiteOrPhone(site.contact[1][i])]
        source == [site.source EXCEPT !.id = _md5_hash(candidate_data)]
    IN  IF failed
        THEN IF first = << >>
             THEN [exc |-> "TypeError", site |-> site]
             ELSE [exc |-> "",
                   site |-> [site EXCEPT
                               !.source = [site.source EXCEPT !.id = _md5_hash(first)],
                               !.id = _make_site_id([site.source EXCEPT
                                                       !.id = _md5_hash(first)])]]
        ELSE [exc |-> "",
              site |-> [site EXCEPT !.source = source, !.id = _make_site_id(source)]]

\* _add_id hashing the entry's page number along with the candidate data.
_add_id_page(site) ==
    LET first == NameAndAddress(site)
        failed == first = << >> /\ site.contact = None
        candidate_data ==
            IF first # << >> THEN first
            ELSE [i \in 1..Len(site.contact[1]) |-> WebsiteOrPhone(site.contact[1][i])]
        page == IF site.source.data.page = 1 THEN "1" ELSE "2"
        source == [site.source EXCEPT
                     !.id = _md5_hash(Append(candidate_data, Some(page)))]
    IN  IF failed
        THEN [exc |-> "TypeError", site |-> site]
        ELSE [exc |-> "",
              site |-> [site EXCEPT !.source = source, !.id = _make_site_id(source)]]

\* _add_id: the outcome is the exception raised ("" for none) and the site.
\* Iterating site.contact when it is None raises TypeError.
_add_id(site) ==
    LET first == NameAndAddress(site)
        failed == first = << >> /\ site.contact = None
        candidate_data ==
            IF first # << >> THEN first
            ELSE [i \in 1..Len(site.contact[1]) |-> WebsiteOrPhone(site.contact[1][i])]
        source == [site.source EXCEPT !.id = _md5_hash(candidate_data)]
    IN  IF failed
        THEN [exc |-> "TypeError", site |-> site]
        ELSE [exc |-> "",
              site |-> [site EXCEPT !.source = source, !.id = _make_site_id(source)]]

(***************************************************************************)
(* Enrichment.                                                             *)
(***************************************************************************)
_URL_HOST_TO_PROVIDER ==
    [h \in {"www.cvs.com", "www.samsclub.com", "www.walmart.com", "www.winndixie.com"} |->
       CASE h = "www.cvs.com" -> "cvs"
         [] h = "www.samsclub.com" -> "sams"
         [] h = "www.walmart.com" -> "walmart"
         [] h = "www.winndixie.com" -> "winn_dixie"]

_lookup_provider(website) ==
    LET url == website.website
        provider == IF url # None /\ url[1].host \in DOMAIN _URL_HOST_TO_PROVIDER
                    THEN Some(_URL_HOST_TO_PROVIDER[url[1].host])
                    ELSE None
    IN  IF provider # None THEN Some([id |-> provider[1]]) ELSE None

_make_website_contact(url) ==
    LET normalized_url == normalize_url(url)
    IN  IF normalized_url # None /\ normalized_url[1].url # ""
        THEN Some(Contact("booking", None, normalized_url))
        ELSE None

\* _add_website_and_provider putting the website before the other contacts.
_add_website_first(site, e) ==
    IF e.link = None
    THEN [exc |-> "KeyError", site |-> site]
    ELSE LET website == _make_website_contact(e.link[1])
             contact == IF TruthyList(site.contact) THEN site.contact[1] ELSE << >>
         IN  IF website # None
             THEN [exc |-> "",
                   site |-> [site EXCEPT
                               !.contact = Some(<<website[1]>> \o contact),
                               !.parent_organization = _lookup_provider(website[1])]]
             ELSE [exc |-> "", site |-> site]

\* _add_website_and_provider: e["link"] raises KeyError when the e
\* has no "link" key (e.link = None).
_add_website_and_provider(site, e) ==
    IF e.link = None
    THEN [exc |-> "KeyError", site |-> site]
    ELSE LET website == _make_website_contact(e.link[1])
             contact == IF TruthyList(site.contact) THEN site.contact[1] ELSE << >>
         IN  IF website # None
             THEN [exc |-> "",
                   site |-> [site EXCEPT
                               !.contact = Some(Append(contact, website[1])),
                               !.parent_organization = _lookup_provider(website[1])]]
             ELSE [exc |-> "", site |-> site]

(***************************************************************************)
(* Classification of one detail by the if/elif chain of normalize().       *)
(***************************************************************************)
\* detail = detail.strip(...) and what each pattern's match() says of it.
\* The combined match carries groups 1-3, the city match groups 1-2.
Classify(raw) ==
    LET detail == Strip(raw)
    IN  [detail |-> detail,
         combined_match |->
            IF Match(COMBINED_ADDRESS_REGEX, detail, TRUE)
            THEN Some(<<Group(COMBINED_ADDRESS_REGEX, detail, TRUE, 1, 3),
                        Group(COMBINED_ADDRESS_REGEX, detail, TRUE, 6, 6),
                        Group(COMBINED_ADDRESS_REGEX, detail, TRUE, 14, 14)>>)
            ELSE None,
         street_match |-> Match(STREET_ADDRESS_REGEX, detail, TRUE),
         city_state_zip_match |->
            IF Match(CITY_STATE_ZIP_REGEX, detail, TRUE)
            THEN Some(<<Group(CITY_STATE_ZIP_REGEX, detail, TRUE, 1, 1),
                        Group(CITY_STATE_ZIP_REGEX, detail, TRUE, 9, 9)>>)
            ELSE None,
         phone_match |-> Match(PHONE_NUMBER_REGEX, detail, FALSE),
         drop_in_match |-> Match(DROP_IN_REGEX, detail, FALSE),
         appointments_match |-> Match(APPOINTMENTS_REGEX, detail, FALSE),
         ignore_match |-> \/ Match(IGNORE_REGEX_ADPH, detail, FALSE)
                          \/ Match(IGNORE_REGEX_CDC, detail, FALSE),
         ignore_name_match |-> Match(IGNORE_NAME_REGEX, detail, FALSE)]

\* The chain with the phone test moved before the address tests.
BranchPhoneFirst(m, cur) ==
    IF m.phone_match THEN "phone"
    ELSE IF m.combined_match # None THEN "combined_address"
    ELSE IF m.street_match THEN "street_address"
    ELSE IF m.city_state_zip_match # None THEN "city_state_zip"
    ELSE IF m.drop_in_match THEN "drop_in"
    ELSE IF m.appointments_match THEN "appointments"
    ELSE IF m.ignore_match THEN "ignore"
    ELSE IF m.ignore_name_match \/ TruthyText(cur.name) THEN "additional_note"
    ELSE "site_name"

\* The branch of the chain that handles a detail: the first whose test holds.
Branch(m, cur) ==
    IF m.combined_match # None THEN "combined_address"
    ELSE IF m.street_match THEN "street_address"
    ELSE IF m.city_state_zip_match # None THEN "city_state_zip"
    ELSE IF m.phone_match THEN "phone"
    ELSE IF m.drop_in_match THEN "drop_in"
    ELSE IF m.appointments_match THEN "appointments"
    ELSE IF m.ignore_match THEN "ignore"
    ELSE IF m.ignore_name_match \/ TruthyText(cur.name) THEN "additional_note"
    ELSE "site_name"

(***************************************************************************)
(* The branches.  Each maps the current site and the list of processed     *)
(* done to their values after the detail.                                 *)
(***************************************************************************)
Running(cur, done) == [current_site |-> cur, sites |-> done]

\* combined_address with the boundary test of the street address: only a
\* site with a street1 is closed.
combined_address_street_rule(cur, done, e, m) ==
    LET street_address == m.combined_match[1][1]
        city == m.combined_match[1][2]
        zip == m.combined_match[1][3]
        st == IF /\ TruthyModel(cur.address)
                 /\ TruthyText(cur.address[1].street1)
              THEN _start_new_site(cur, done, e)
              ELSE Running(cur, done)
    IN  [st EXCEPT !.current_site.address =
            Some(Address(Some(street_address), Some(city), Some("AL"),
                         Some(normalize_zip(zip))))]

combined_address(cur, done, e, m) ==
    LET street_address == m.combined_match[1][1]
        city == m.combined_match[1][2]
        zip == m.combined_match[1][3]
        st == IF TruthyModel(cur.address)
              THEN _start_new_site(cur, done, e)
              ELSE Running(cur, done)
    IN  [st EXCEPT !.current_site.address =
            Some(Address(Some(street_address), Some(city), Some("AL"),
                         Some(normalize_zip(zip))))]

\* street_address with the boundary test of the combined address: any
\* address at all closes the record.
street_address_symmetric(cur, done, e, m) ==
    LET st == IF TruthyModel(cur.address)
              THEN _start_new_site(cur, done, e)
              ELSE Running(cur, done)
        address == IF TruthyModel(st.current_site.address)
                   THEN st.current_site.address[1]
                   ELSE Address(None, None, Some("AL"), None)
    IN  [st EXCEPT !.current_site.address =
            Some([address EXCEPT !.street1 = Some(m.detail)])]

street_address(cur, done, e, m) ==
    LET st == IF /\ TruthyModel(cur.address)
                 /\ TruthyText(cur.address[1].street1)
              THEN _start_new_site(cur, done, e)
              ELSE Running(cur, done)
        address == IF TruthyModel(st.current_site.address)
                   THEN st.current_site.address[1]
                   ELSE Address(None, None, Some("AL"), None)
    IN  [st EXCEPT !.current_site.address =
            Some([address EXCEPT !.street1 = Some(m.detail)])]

city_state_zip(cur, done, e, m) ==
    LET city == m.city_state_zip_match[1][1]
        zip == m.city_state_zip_match[1][2]
        st == IF /\ TruthyModel(cur.address)
                 /\ \/ TruthyText(cur.address[1].city)
                    \/ TruthyText(cur.address[1].zip)
              THEN _start_new_site(cur, done, e)
              ELSE Running(cur, done)
        address == IF TruthyModel(st.current_site.address)
                   THEN st.current_site.address[1]
                   ELSE Address(None, None, Some("AL"), None)
    IN  [st EXCEPT !.current_site.address =
            Some([address EXCEPT !.city = Some(city),
                                 !.zip = Some(normalize_zip(zip))])]

\* phone without the start of a new site.
phone_keeps_open(cur, done, e, m) ==
    LET contact == IF TruthyList(cur.contact)
                   THEN cur.contact[1]
                   ELSE << >>
    IN  Running(
            [cur EXCEPT
               !.contact = Some(contact \o normalize_phone(m.detail, "booking"))],
            done)

phone(cur, done, e, m) ==
    LET contact == IF TruthyList(cur.contact)
                   THEN cur.contact[1]
                   ELSE << >>
    IN  _start_new_site(
            [cur EXCEPT
               !.contact = Some(contact \o normalize_phone(m.detail, "booking"))],
            done, e)

\* drop_in without the start of a new site.
drop_in_stays(cur, done, e, m) ==
    LET availability == IF TruthyModel(cur.availability)
                        THEN cur.availability[1]
                        ELSE Availability
    IN  Running(
            [cur EXCEPT
               !.availability = Some([availability EXCEPT !.drop_in = Some(TRUE)])],
            done)

drop_in(cur, done, e, m) ==
    LET availability == IF TruthyModel(cur.availability)
                        THEN cur.availability[1]
                        ELSE Availability
    IN  _start_new_site(
            [cur EXCEPT
               !.availability = Some([availability EXCEPT !.drop_in = Some(TRUE)])],
            done, e)

\* appointments giving the flag a site of its own: the current site is
\* closed before the flag is set as well as after.
appointments_own_record(cur, done, e, m) ==
    LET st == _start_new_site(cur, done, e)
    IN  _start_new_site(
            [st.current_site EXCEPT
               !.availability = Some([Availability EXCEPT !.appointments = Some(TRUE)])],
            st.sites, e)

appointments(cur, done, e, m) ==
    LET availability == IF TruthyModel(cur.availability)
                        THEN cur.availability[1]
                        ELSE Availability
    IN  _start_new_site(
            [cur EXCEPT
               !.availability = Some([availability EXCEPT !.appointments = Some(TRUE)])],
            done, e)

\* ignore going through _start_new_site: the current site is recorded.
ignore_keeps(cur, done, e, m) ==
    _start_new_site(cur, done, e)

ignore(cur, done, e, m) ==
    Running(_make_placeholder_location(e), done)

\* additional_note taking the text for the name as well.
additional_note_renames(cur, done, e, m) ==
    LET notes == IF TruthyList(cur.notes) THEN cur.notes[1] ELSE << >>
    IN  Running([cur EXCEPT !.notes = Some(Append(notes, m.detail)),
                            !.name = Some(m.detail)],
                done)

\* additional_note writing to the last processed site when there is one.
additional_note_to_last(cur, done, e, m) ==
    IF done = << >>
    THEN Running([cur EXCEPT !.notes =
                     Some(Append(IF TruthyList(cur.notes) THEN cur.notes[1] ELSE << >>,
                                 m.detail))],
                 done)
    ELSE Running(cur,
                 [done EXCEPT ![Len(done)].notes =
                     Some(Append(IF TruthyList(done[Len(done)].notes)
                                 THEN done[Len(done)].notes[1] ELSE << >>,
                                 m.detail))])

additional_note(cur, done, e, m) ==
    LET notes == IF TruthyList(cur.notes) THEN cur.notes[1] ELSE << >>
    IN  Running([cur EXCEPT !.notes = Some(Append(notes, m.detail))], done)

site_name(cur, done, e, m) ==
    Running([cur EXCEPT
               !.name = IF TruthyText(cur.name)
                        THEN cur.name
                        ELSE Some(m.detail)],
            done)

\* The test of the last site taking the placeholder id for site info.
HasSiteInfoOrId(site) ==
    \/ TruthyModel(site.address)
    \/ TruthyModel(site.availability)
    \/ TruthyText(site.name)
    \/ TruthyList(site.contact)
    \/ site.id # ""

\* "Include the last processed site": the test of lines 209-214.
HasSiteInfo(site) ==
    \/ TruthyModel(site.address)
    \/ TruthyModel(site.availability)
    \/ TruthyText(site.name)
    \/ TruthyList(site.contact)

\* last_site without the test: the current site is always included.
last_site_unchecked(cur, done) ==
    Append(done, cur)

last_site(cur, done) ==
    IF HasSiteInfo(cur) THEN Append(done, cur) ELSE done

\* existing.dict(exclude_none=True, exclude_unset=True, exclude={"source"})
Data(site) == [f \in (DOMAIN site) \ {"source"} |-> site[f]]

(***************************************************************************)
(* Inputs.  An entry is one parsed JSON line: "details" and "link" may be  *)
(* missing (None); "page" stands for the layout fields normalize() does    *)
(* not read but keeps in source.data.                                      *)
(***************************************************************************)
MaxDetails == 3
MaxEntries == 3

Entry(ds, link, page) ==
    [details |-> ds, link |-> link, page |-> page,
     fetched_from_uri |-> None, published_at |-> None]

\* The detail texts of the single-entry streams.
Corpus ==
    {"123 Main St",
     "456 Oak Ave",
     "Anytown, AL 35006",
     "123 Main St, Anytown, AL 35006",
     "(205) 555-0100",
     "12345",
     "No appointments necessary, walk-ins welcome",
     "Make an appointment here",
     "Alabama Department of Public Health (ADPH):",
     "Locations to be determined",
     " Community Center,"}

\* The values of "link": no key, an empty value, a known provider's page,
\* another page.
Links ==
    {None, Some(""), Some("https://www.cvs.com/vaccine"), Some("https://www.jcdh.org/")}

DetailLists == UNION {[1..n -> Corpus] : n \in 0..MaxDetails}

SingleEntries ==
    {Entry(Some(ds), link, 1) : ds \in DetailLists, link \in Links}
      \cup {Entry(None, link, 1) : link \in Links}

\* The entries of the longer streams: few, so that the same site comes
\* again, alike or changed, from another entry.
StreamDetailLists ==
    {<<"123 Main St">>,
     <<"123 Main St", "456 Oak Ave">>,
     <<"Community Center", "No appointments necessary, walk-ins welcome">>}

StreamEntries ==
    {Entry(Some(ds), link, page) :
        ds \in StreamDetailLists,
        link \in {Some(""), Some("https://www.cvs.com/vaccine")},
        page \in 1..2}

Streams ==
    {<<e>> : e \in SingleEntries}
      \cup UNION {[1..n -> StreamEntries] : n \in {0} \cup (2..MaxEntries)}

AllDetails == Corpus \cup UNION {{ds[i] : i \in 1..Len(ds)} : ds \in StreamDetailLists}

\* Classify, tabulated over the detail texts of the inputs.
Classified == [raw \in AllDetails |-> Classify(raw)]

\* The branch named b of the chain, applied.
Dispatch(b, cur, done, e, m) ==
    CASE b = "combined_address" -> combined_address(cur, done, e, m)
      [] b = "street_address" -> street_address(cur, done, e, m)
      [] b = "city_state_zip" -> city_state_zip(cur, done, e, m)
      [] b = "phone" -> phone(cur, done, e, m)
      [] b = "drop_in" -> drop_in(cur, done, e, m)
      [] b = "appointments" -> appointments(cur, done, e, m)
      [] b = "ignore" -> ignore(cur, done, e, m)
      [] b = "additional_note" -> additional_note(cur, done, e, m)
      [] b = "site_name" -> site_name(cur, done, e, m)

\* The detail loop of normalize() from the detail at idx on, and the test of
\* the last site: the list of sites before the enrichment and the ids.
RECURSIVE Segment(_, _, _, _)
Segment(e, ds, idx, st) ==
    IF idx > Len(ds)
    THEN last_site(st.current_site, st.sites)
    ELSE LET m == Classified[ds[idx]]
         IN  Segment(e, ds, idx + 1,
                     Dispatch(Branch(m, st.current_site),
                              st.current_site, st.sites, e, m))

Segmented(e) ==
    Segment(e, IF e.details = None THEN << >> ELSE e.details[1], 1,
            Running(_make_placeholder_location(e), << >>))

(***************************************************************************)
(* The state: main()'s input, position, id map and output, and the locals  *)
(* of the normalize() call in progress.                                    *)
(***************************************************************************)
VARIABLES
    fin,            \* the parsed lines of the input file
    line,           \* the number of lines read
    pc,             \* "main", "loop", "enrich", "add_id", "merge", "raised", "done"
    exc,            \* the exception that ended the run ("" for none)
    d,              \* normalize: the index of the next detail
    current_site,   \* normalize: the site being built (None outside the loop)
    sites,          \* normalize: the processed sites; in main, normalized_sites
    k,              \* normalize: the index of the site being finished
    j,              \* main: the index of the next normalized site
    locations,      \* main: id -> first site seen with that id
    fout            \* main: the lines written

vars == <<fin, line, pc, exc, d, current_site, sites, k, j, locations, fout>>

\* parsed_site, the entry being processed.
entry == fin[line]

\* entry.get("details", [])
details == IF entry.details = None THEN << >> ELSE entry.details[1]

Init ==
    /\ fin \in Streams
    /\ line = 0
    /\ pc = "main"
    /\ exc = ""
    /\ d = 0
    /\ current_site = None
    /\ sites = << >>
    /\ k = 0
    /\ j = 0
    /\ locations = << >>
    /\ fout = << >>

(***************************************************************************)
(* normalize(entry)                                                        *)
(***************************************************************************)
\* main reads the next line and calls normalize, which sets up its locals.
ReadLine ==
    /\ pc = "main"
    /\ line < Len(fin)
    /\ line' = line + 1
    /\ sites' = << >>
    /\ current_site' = Some(_make_placeholder_location(fin[line + 1]))
    /\ d' = 1
    /\ pc' = "loop"
    /\ UNCHANGED <<fin, exc, k, j, locations, fout>>

\* One turn of "for detail in details": the detail at hand, the branch that
\* takes it, and the step to the branch's outcome st.
AtDetail(branch) ==
    /\ pc = "loop"
    /\ d <= Len(details)
    /\ Branch(Classified[details[d]], current_site[1]) = branch

Turn(st) ==
    /\ current_site' = Some(st.current_site)
    /\ sites' = st.sites
    /\ d' = d + 1
    /\ UNCHANGED <<fin, line, pc, exc, k, j, locations, fout>>

CombinedAddress ==
    /\ AtDetail("combined_address")
    /\ Turn(combined_address(current_site[1], sites, entry, Classified[details[d]]))

StreetAddress ==
    /\ AtDetail("street_address")
    /\ Turn(street_address(current_site[1], sites, entry, Classified[details[d]]))

CityStateZip ==
    /\ AtDetail("city_state_zip")
    /\ Turn(city_state_zip(current_site[1], sites, entry, Classified[details[d]]))

Phone ==
    /\ AtDetail("phone")
    /\ Turn(phone(current_site[1], sites, entry, Classified[details[d]]))

DropIn ==
    /\ AtDetail("drop_in")
    /\ Turn(drop_in(current_site[1], sites, entry, Classified[details[d]]))

Appointments ==
    /\ AtDetail("appointments")
    /\ Turn(appointments(current_site[1], sites, entry, Classified[details[d]]))

Ignore ==
    /\ AtDetail("ignore")
    /\ Turn(ignore(current_site[1], sites, entry, Classified[details[d]]))

AdditionalNote ==
    /\ AtDetail("additional_note")
    /\ Turn(additional_note(current_site[1], sites, entry, Classified[details[d]]))

SiteName ==
    /\ AtDetail("site_name")
    /\ Turn(site_name(current_site[1], sites, entry, Classified[details[d]]))

\* After the loop: include the last processed site; with no site at all
\* normalize returns at once.
LastSite ==
    /\ pc = "loop"
    /\ d > Len(details)
    /\ sites' = last_site(current_site[1], sites)
    /\ d' = 0
    /\ IF sites' # << >>
       THEN /\ pc' = "enrich"
            /\ k' = 1
            /\ UNCHANGED <<current_site, j>>
       ELSE /\ pc' = "merge"
            /\ k' = 0
            /\ j' = 1
            /\ current_site' = None
    /\ UNCHANGED <<fin, line, exc, locations, fout>>

\* The two statements of the loop body swapped: the id is computed first,
\* the website and provider are added after it.
EnrichAfterId ==
    /\ pc = "enrich"
    /\ LET r == _add_id(sites[k])
           s == IF r.exc # "" THEN r ELSE _add_website_and_provider(r.site, entry)
       IN  IF s.exc # ""
           THEN /\ pc' = "raised"
                /\ exc' = s.exc
                /\ UNCHANGED <<sites, k, j, current_site>>
           ELSE /\ sites' = [sites EXCEPT ![k] = s.site]
                /\ UNCHANGED exc
                /\ IF k < Len(sites)
                   THEN /\ pc' = "enrich"
                        /\ k' = k + 1
                        /\ UNCHANGED <<j, current_site>>
                   ELSE /\ pc' = "merge"
                        /\ k' = 0
                        /\ j' = 1
                        /\ current_site' = None
    /\ UNCHANGED <<fin, line, d, locations, fout>>

\* for site in sites: _add_website_and_provider(site, entry)
AddWebsiteAndProvider ==
    /\ pc = "enrich"
    /\ LET r == _add_website_and_provider(sites[k], entry)
       IN  IF r.exc # ""
           THEN /\ pc' = "raised"
                /\ exc' = r.exc
                /\ UNCHANGED sites
           ELSE /\ pc' = "add_id"
                /\ sites' = [sites EXCEPT ![k] = r.site]
                /\ UNCHANGED exc
    /\ UNCHANGED <<fin, line, d, current_site, k, j, locations, fout>>

\* for site in sites: _add_id(site); after the last site normalize returns.
AddId ==
    /\ pc = "add_id"
    /\ LET r == _add_id(sites[k])
       IN  IF r.exc # ""
           THEN /\ pc' = "raised"
                /\ exc' = r.exc
                /\ UNCHANGED <<sites, k, j, current_site>>
           ELSE /\ sites' = [sites EXCEPT ![k] = r.site]
                /\ UNCHANGED exc
                /\ IF k < Len(sites)
                   THEN /\ pc' = "enrich"
                        /\ k' = k + 1
                        /\ UNCHANGED <<j, current_site>>
                   ELSE /\ pc' = "merge"
                        /\ k' = 0
                        /\ j' = 1
                        /\ current_site' = None
    /\ UNCHANGED <<fin, line, d, locations, fout>>

(***************************************************************************)
(* main()                                                                  *)
(***************************************************************************)
\* normalize has returned sites; main's loop is at normalized_sites[j].
normalized_sites == sites
normalized_site == sites[j]

\* The step of "for normalized_site in normalized_sites" to the next site,
\* or back to reading lines after the last one.
NextSite ==
    IF j < Len(sites)
    THEN /\ j' = j + 1
         /\ UNCHANGED <<pc, sites>>
    ELSE /\ j' = 0
         /\ pc' = "main"
         /\ sites' = << >>

\* "Entry has no vaccine site info"
NoSiteInfo ==
    /\ pc = "merge"
    /\ normalized_sites = << >>
    /\ pc' = "main"
    /\ j' = 0
    /\ UNCHANGED <<fin, line, exc, d, current_site, sites, k, locations, fout>>

\* NewLocation without "locations[normalized_site.id] = normalized_site".
NewLocationForgets ==
    /\ pc = "merge"
    /\ normalized_sites # << >>
    /\ normalized_site.id \notin DOMAIN locations
    /\ fout' = Append(fout, normalized_site)
    /\ NextSite
    /\ UNCHANGED <<fin, line, exc, d, current_site, k, locations>>

\* An id not seen before: record the site and write it.
NewLocation ==
    /\ pc = "merge"
    /\ normalized_sites # << >>
    /\ normalized_site.id \notin DOMAIN locations
    /\ locations' = [id \in DOMAIN locations \cup {normalized_site.id} |->
                        IF id = normalized_site.id THEN normalized_site
                        ELSE locations[id]]
    /\ fout' = Append(fout, normalized_site)
    /\ NextSite
    /\ UNCHANGED <<fin, line, exc, d, current_site, k>>

\* Duplicate writing the site out again.
DuplicateEmits ==
    /\ pc = "merge"
    /\ normalized_sites # << >>
    /\ normalized_site.id \in DOMAIN locations
    /\ Data(locations[normalized_site.id]) = Data(normalized_site)
    /\ fout' = Append(fout, normalized_site)
    /\ NextSite
    /\ UNCHANGED <<fin, line, exc, d, current_site, k, locations>>

\* A seen id with the same content: "will record only one".
Duplicate ==
    /\ pc = "merge"
    /\ normalized_sites # << >>
    /\ normalized_site.id \in DOMAIN locations
    /\ Data(locations[normalized_site.id]) = Data(normalized_site)
    /\ NextSite
    /\ UNCHANGED <<fin, line, exc, d, current_site, k, locations, fout>>

\* Conflict keeping the later site in place of the first.
ConflictOverwrites ==
    /\ pc = "merge"
    /\ normalized_sites # << >>
    /\ normalized_site.id \in DOMAIN locations
    /\ Data(locations[normalized_site.id]) # Data(normalized_site)
    /\ locations' = [locations EXCEPT ![normalized_site.id] = normalized_site]
    /\ NextSite
    /\ UNCHANGED <<fin, line, exc, d, current_site, k, fout>>

\* A seen id with other content: "ignoring the second".
Conflict ==
    /\ pc = "merge"
    /\ normalized_sites # << >>
    /\ normalized_site.id \in DOMAIN locations
    /\ Data(locations[normalized_site.id]) # Data(normalized_site)
    /\ NextSite
    /\ UNCHANGED <<fin, line, exc, d, current_site, k, locations, fout>>

\* The input is exhausted: the files are closed.
Finish ==
    /\ pc = "main"
    /\ line = Len(fin)
    /\ pc' = "done"
    /\ UNCHANGED <<fin, line, exc, d, current_site, sites, k, j, locations, fout>>

Next ==
    \/ ReadLine
    \/ CombinedAddress
    \/ StreetAddress
    \/ CityStateZip
    \/ Phone
    \/ DropIn
    \/ Appointments
    \/ Ignore
    \/ AdditionalNote
    \/ SiteName
    \/ LastSite
    \/ AddWebsiteAndProvider
    \/ AddId
    \/ NoSiteInfo
    \/ NewLocation
    \/ Duplicate
    \/ Conflict
    \/ Finish

Spec == Init /\ [][Next]_vars

(***************************************************************************)
(* Properties.                                                             *)
(***************************************************************************)
\* The list normalize() has returned to main (empty while it still runs).
Returned == IF pc = "merge" THEN sites ELSE << >>

\* The ids of the lines written so far.
FoutIds == {fout[i].id : i \in 1..Len(fout)}

\* The branch that takes a detail met by a site without a name.
Kind(raw) == Branch(Classified[raw], [name |-> None])

\* The candidate values of a record: name, street1, city, state and zip
\* that are not empty; when there is none, each contact's website or phone.
CandidateValues(r) ==
    IF NameAndAddress(r) # << >> THEN NameAndAddress(r)
    ELSE IF r.contact = None THEN << >>
    ELSE [i \in 1..Len(r.contact[1]) |-> WebsiteOrPhone(r.contact[1][i])]

\* The digest of a record's candidate values, empty ones left out.
CandidateDigest(r) ==
    LET kept == SelectSeq(CandidateValues(r), IsTruthyText)
    IN  Md5HexDigest(Join([i \in 1..Len(kept) |-> kept[i][1]]))

\* The contacts of a record that carry a phone number.
PhoneContacts(r) ==
    IF r.contact = None THEN << >>
    ELSE SelectSeq(r.contact[1], LAMBDA c : c.phone # None)

\* C1: every record of the list normalize returns has an address, an
\* availability, a name or at least one contact, whichever detail closed it
\* (a phone detail that yields no contact included).
C1_Retention ==
    \A i \in 1..Len(Returned) : HasSiteInfo(Returned[i])

\* C2: normalize never raises: whatever the entry (with or without a link)
\* and its details, enrichment and id assignment complete.
C2_NeverRaises ==
    pc # "raised" /\ exc = ""

\* C3: the written records have pairwise distinct ids, and a record the
\* driver handles is written, after all those written before, exactly when
\* no record with its id was handled before it; nothing else is written.
C3_Distinct ==
    \A a, b \in 1..Len(fout) : fout[a].id = fout[b].id => a = b

C3_Emit ==
    fout' = IF pc = "merge" /\ sites # << >> /\ sites[j].id \notin FoutIds
            THEN Append(fout, sites[j])
            ELSE fout

C3_FirstSeenOrder ==
    []C3_Distinct /\ [][C3_Emit]_vars

C3_Witness ==
    /\ pc = "merge"
    /\ line = 2
    /\ j = 2
    /\ Len(fout) = 1
    /\ fout[1].source.data = fin[1]
    /\ sites[1].id = fout[1].id
    /\ sites[2].id # fout[1].id

\* C4: an entry equal to an earlier entry of the stream adds nothing to the
\* output and nothing to the id map; an entry of one record fed twice has
\* one record written.
C4_Repeated ==
    pc = "merge" /\ \E i \in 1..(line - 1) : fin[i] = fin[line]

C4_Once ==
    (C4_Repeated /\ line = 2 /\ Len(sites) = 1) => Len(fout) = 1

C4_Idempotent ==
    []C4_Once /\ [][C4_Repeated => UNCHANGED <<locations, fout>>]_vars

C4_Witness ==
    /\ pc = "done"
    /\ Len(fin) = 2
    /\ fin[1] = fin[2]
    /\ Len(fout) = 1
    /\ DOMAIN locations = {fout[1].id}

\* C5: a record whose id is in the map with other field values (source
\* apart) leaves the map and the output as they are, raises nothing, and
\* the loop goes on to the next record, or to the next line after the last.
C5_InConflict ==
    /\ pc = "merge"
    /\ sites # << >>
    /\ sites[j].id \in DOMAIN locations
    /\ \E f \in (DOMAIN sites[j]) \ {"source"} :
          locations[sites[j].id][f] # sites[j][f]

C5_Step ==
    C5_InConflict =>
        /\ UNCHANGED <<locations, fout, fin, line>>
        /\ exc' = ""
        /\ IF j < Len(sites)
           THEN pc' = "merge" /\ j' = j + 1 /\ sites' = sites
           ELSE pc' = "main"

C5_ConflictKeepsFirst ==
    [][C5_Step]_vars

C5_Witness ==
    /\ pc = "done"
    /\ Len(fin) = 3
    /\ fin[1].details = Some(<<"123 Main St">>)
    /\ fin[2].details = fin[1].details
    /\ fin[1].link = Some("")
    /\ fin[2].link = Some("https://www.cvs.com/vaccine")
    /\ fin[3].details # fin[1].details
    /\ Len(fout) >= 2
    /\ fout[1].source.data = fin[1]
    /\ locations[fout[1].id] = fout[1]
    /\ fout[2].source.data = fin[3]

\* C6: two records normalize has returned, from one entry or from two,
\* with the same candidate values in the same order have the same
\* source.id and the same id.
C6_Records ==
    {Returned[i] : i \in 1..Len(Returned)} \cup {fout[i] : i \in 1..Len(fout)}

C6_IdDeterminism ==
    \A r1, r2 \in C6_Records :
        CandidateValues(r1) = CandidateValues(r2) =>
            r1.id = r2.id /\ r1.source.id = r2.source.id

C6_Witness ==
    /\ pc = "merge"
    /\ sites # << >>
    /\ fout # << >>
    /\ fout[1].source.data.page # sites[j].source.data.page
    /\ fout[1].source.data.link # sites[j].source.data.link
    /\ CandidateValues(fout[1]) = CandidateValues(sites[j])
    /\ fout[1].id = sites[j].id

\* C7: a returned record's id is "al_jefferson:" and the digest of the
\* candidate values of its final fields (the website contact of the
\* enrichment among them when contacts are used), never the placeholder,
\* and a record that has its id does not change any more.
C7_Final ==
    \A i \in 1..Len(Returned) :
        /\ Returned[i].source.id = CandidateDigest(Returned[i])
        /\ Returned[i].id = "al_jefferson:" \o CandidateDigest(Returned[i])
        /\ Returned[i].source.id # "PLACEHOLDER"

C7_Frozen ==
    \A i \in 1..Len(sites) :
        (sites[i].source.id # "PLACEHOLDER" /\ pc' # "main") =>
            (i <= Len(sites') /\ sites'[i] = sites[i])

C7_IdAfterEnrichment ==
    []C7_Final /\ [][C7_Frozen]_vars

C7_Witness ==
    /\ pc = "merge"
    /\ Len(sites) = 1
    /\ NameAndAddress(sites[1]) = << >>
    /\ Len(PhoneContacts(sites[1])) = 1
    /\ Len(sites[1].contact[1]) = 2
    /\ sites[1].id = "al_jefferson:md5((205) 555-0100https://www.cvs.com/vaccine)"

\* C8: for details that are a street address alone, then a city, state and
\* zip alone, then a phone, normalize returns exactly one record, with the
\* street of the first, the city and zip of the second and the phone
\* contacts of the third; the placeholder opened by the phone is not
\* returned.
C8_StreetCityPhone ==
    (/\ pc = "merge"
     /\ Len(details) = 3
     /\ Kind(details[1]) = "street_address"
     /\ Kind(details[2]) = "city_state_zip"
     /\ Kind(details[3]) = "phone") =>
        LET street == Classified[details[1]].detail
            city == Classified[details[2]].city_state_zip_match[1][1]
            zip == Classified[details[2]].city_state_zip_match[1][2]
            phones == normalize_phone(Classified[details[3]].detail, "booking")
        IN  /\ Len(sites) = 1
            /\ sites[1].address =
                 Some(Address(Some(street), Some(city), Some("AL"),
                              Some(normalize_zip(zip))))
            /\ PhoneContacts(sites[1]) = phones
            /\ sites[1].name = None
            /\ details = <<"123 Main St", "Anytown, AL 35006", "(205) 555-0100">> =>
                 /\ sites[1].address[1].street1 = Some("123 Main St")
                 /\ sites[1].address[1].city = Some("Anytown")
                 /\ sites[1].address[1].zip = Some("35006")
                 /\ Len(PhoneContacts(sites[1])) = 1

C8_Witness ==
    /\ pc = "merge"
    /\ details = <<"123 Main St", "Anytown, AL 35006", "(205) 555-0100">>
    /\ Len(sites) = 1
    /\ PhoneContacts(sites[1]) # << >>

\* C9: a street address alone closes the current record exactly when its
\* street1 is set, a city, state and zip alone exactly when its city or zip
\* is set; so street then city, or city then street, fill one record, and
\* two streets in a row give two records with street1 and no city or zip.
C9_StreetStep ==
    AtDetail("street_address") =>
        LET cur == current_site[1]
            m == Classified[details[d]]
            closes == cur.address # None /\ cur.address[1].street1 # None
        IN  /\ sites' = IF closes THEN Append(sites, cur) ELSE sites
            /\ current_site'[1].address[1].street1 = Some(m.detail)
            /\ current_site'[1].address[1].city =
                 IF closes \/ cur.address = None THEN None ELSE cur.address[1].city
            /\ current_site'[1].address[1].zip =
                 IF closes \/ cur.address = None THEN None ELSE cur.address[1].zip
            /\ current_site'[1].name = IF closes THEN None ELSE cur.name

C9_CityStep ==
    AtDetail("city_state_zip") =>
        LET cur == current_site[1]
            m == Classified[details[d]]
            closes == /\ cur.address # None
                      /\ cur.address[1].city # None \/ cur.address[1].zip # None
        IN  /\ sites' = IF closes THEN Append(sites, cur) ELSE sites
            /\ current_site'[1].address[1].city = Some(m.city_state_zip_match[1][1])
            /\ current_site'[1].address[1].street1 =
                 IF closes \/ cur.address = None THEN None ELSE cur.address[1].street1
            /\ current_site'[1].name = IF closes THEN None ELSE cur.name

C9_Pairs ==
    (pc = "merge" /\ Len(details) = 2) =>
        LET k1 == Kind(details[1])
            k2 == Kind(details[2])
        IN  /\ {k1, k2} = {"street_address", "city_state_zip"} =>
                 /\ Len(sites) = 1
                 /\ sites[1].address[1].street1 # None
                 /\ sites[1].address[1].city # None
                 /\ sites[1].address[1].zip # None
            /\ (k1 = "street_address" /\ k2 = "street_address") =>
                 /\ Len(sites) = 2
                 /\ \A i \in 1..2 :
                       /\ sites[i].address[1].street1 = Some(Classified[details[i]].detail)
                       /\ sites[i].address[1].city = None
                       /\ sites[i].address[1].zip = None

C9_PartialAddressBoundary ==
    []C9_Pairs /\ [][C9_StreetStep /\ C9_CityStep]_vars

C9_Witness ==
    /\ pc = "merge"
    /\ details = <<"123 Main St", "456 Oak Ave">>
    /\ Len(sites) = 2
    /\ sites[1].address[1].street1 = Some("123 Main St")
    /\ sites[2].address[1].street1 = Some("456 Oak Ave")

\* C10: an ignore marker leaves the list of processed sites as it is and
\* puts an empty placeholder in place of the current site, whatever that
\* held; so a marker and then a street address give one record with only
\* the street address, and a name or an address right before a marker is
\* in no returned record.
C10_Step ==
    AtDetail("ignore") =>
        /\ sites' = sites
        /\ current_site' = Some(_make_placeholder_location(entry))

C10_NameOrAddress ==
    {"site_name", "street_address", "city_state_zip", "combined_address"}

C10_OnlyStreet(r, raw) ==
    /\ r.address = Some(Address(Some(Classified[raw].detail), None, Some("AL"), None))
    /\ r.name = None
    /\ r.notes = None
    /\ r.availability = None
    /\ PhoneContacts(r) = << >>

C10_Scenarios ==
    /\ (/\ pc = "merge"
        /\ Len(details) \in 2..3
        /\ Kind(details[Len(details) - 1]) = "ignore"
        /\ Len(details) = 3 => Kind(details[1]) \in C10_NameOrAddress) =>
           LET last == details[Len(details)]
           IN  /\ Kind(last) = "street_address" =>
                    Len(sites) = 1 /\ C10_OnlyStreet(sites[1], last)
               /\ Kind(last) = "ignore" => sites = << >>
    /\ (/\ pc = "merge"
        /\ Len(details) = 2
        /\ Kind(details[1]) \in C10_NameOrAddress
        /\ Kind(details[2]) = "ignore") => sites = << >>

C10_IgnoreDiscards ==
    []C10_Scenarios /\ [][C10_Step]_vars

C10_Witness ==
    /\ pc = "merge"
    /\ Len(details) = 3
    /\ Kind(details[1]) = "site_name"
    /\ Kind(details[2]) = "ignore"
    /\ details[3] = "123 Main St"
    /\ Len(sites) = 1
    /\ sites[1].name = None

\* C11: a detail that matches none of the seven patterns is appended to the
\* notes of the current site when the site has a name or the detail is an
\* ignore-as-name marker, leaving name, address, contacts, availability and
\* the processed sites as they are; otherwise it becomes the name and the
\* notes stay.  A name once set stays for the rest of the record's life.
C11_Unmatched ==
    /\ pc = "loop"
    /\ d <= Len(details)
    /\ Classified[details[d]].combined_match = None
    /\ ~Classified[details[d]].street_match
    /\ Classified[details[d]].city_state_zip_match = None
    /\ ~Classified[details[d]].phone_match
    /\ ~Classified[details[d]].drop_in_match
    /\ ~Classified[details[d]].appointments_match
    /\ ~Classified[details[d]].ignore_match

C11_Step ==
    C11_Unmatched =>
        LET cur == current_site[1]
            new == current_site'[1]
            text == Classified[details[d]].detail
        IN  IF (cur.name # None /\ cur.name[1] # "")
               \/ Classified[details[d]].ignore_name_match
            THEN /\ new.notes =
                      Some((IF cur.notes = None THEN << >> ELSE cur.notes[1])
                             \o <<text>>)
                 /\ new.name = cur.name
                 /\ new.address = cur.address
                 /\ new.contact = cur.contact
                 /\ new.availability = cur.availability
                 /\ sites' = sites
            ELSE /\ new.name = Some(text)
                 /\ new.notes = cur.notes
                 /\ sites' = sites

C11_NameKept ==
    /\ (pc = "loop" /\ d <= Len(details) /\ TruthyText(current_site[1].name)) =>
          \/ current_site'[1].name = current_site[1].name
          \/ /\ Len(sites') = Len(sites) + 1
             /\ sites'[Len(sites')].name = current_site[1].name
          \/ AtDetail("ignore")
    /\ \A i \in 1..Len(sites) :
          pc' # "main" => (i <= Len(sites') /\ sites'[i].name = sites[i].name)

C11_NameNotesFallback ==
    [][C11_Step /\ C11_NameKept]_vars

C11_Witness ==
    /\ pc = "merge"
    /\ details = <<" Community Center,", "Locations to be determined",
                   " Community Center,">>
    /\ Len(sites) = 1
    /\ sites[1].name = Some("Community Center")
    /\ sites[1].notes = Some(<<"Locations to be determined", "Community Center">>)

\* C12: no record has both availability flags: a drop-in or an appointments
\* detail sets its flag and closes the record, so the flags of one entry
\* fall on different records.
C12_Both(r) ==
    /\ r.availability # None
    /\ r.availability[1].drop_in = Some(TRUE)
    /\ r.availability[1].appointments = Some(TRUE)

C12_OneFlagPerRecord ==
    /\ current_site # None => ~C12_Both(current_site[1])
    /\ \A i \in 1..Len(sites) : ~C12_Both(sites[i])
    /\ \A i \in 1..Len(fout) : ~C12_Both(fout[i])

C12_Witness ==
    /\ pc = "merge"
    /\ details = <<"No appointments necessary, walk-ins welcome",
                   "Make an appointment here">>
    /\ Len(sites) = 2
    /\ sites[1].availability = Some([drop_in |-> Some(TRUE), appointments |-> None])
    /\ sites[2].availability = Some([drop_in |-> None, appointments |-> Some(TRUE)])

\* C12 as stated: some entry, of the single entries or of the stream at
\* hand, gives a record with both drop_in and appointments set (the
\* enrichment and the ids leave availability alone, so the records are those
\* of the detail loop).
C12_BothFlagsReachable ==
    \E e \in SingleEntries \cup {fin[i] : i \in 1..Len(fin)} :
        \E i \in 1..Len(Segmented(e)) : C12_Both(Segmented(e)[i])

\* C13: for an entry whose details are empty or absent, whatever its link,
\* normalize returns the empty list: no site is processed, enriched or
\* given an id, and nothing is raised.
C13_EmptyInput ==
    (line >= 1 /\ (entry.details = None \/ entry.details = Some(<< >>))) =>
        /\ sites = << >>
        /\ pc \in {"loop", "merge", "main", "done"}
        /\ exc = ""

C13_Witness ==
    /\ pc = "merge"
    /\ entry.details = None
    /\ entry.link = None
    /\ Returned = << >>

\* C14: a phone, drop-in or appointments detail is first applied to the
\* current site (the phone contacts appended, the flag set to true), then
\* the current site is appended to the processed sites, whatever it held,
\* and an empty placeholder takes its place: one more processed site per
\* such detail.  A name and then a drop-in marker give one record with
\* that name and drop_in true.
C14_Applied(cur, m, branch) ==
    CASE branch = "phone" ->
           [cur EXCEPT !.contact =
               Some((IF cur.contact = None THEN << >> ELSE cur.contact[1])
                      \o normalize_phone(m.detail, "booking"))]
      [] branch = "drop_in" ->
           [cur EXCEPT !.availability =
               Some([drop_in |-> Some(TRUE),
                     appointments |-> IF cur.availability = None THEN None
                                      ELSE cur.availability[1].appointments])]
      [] branch = "appointments" ->
           [cur EXCEPT !.availability =
               Some([drop_in |-> IF cur.availability = None THEN None
                                 ELSE cur.availability[1].drop_in,
                     appointments |-> Some(TRUE)])]

C14_Step ==
    \A branch \in {"phone", "drop_in", "appointments"} :
        AtDetail(branch) =>
            /\ sites' = Append(sites, C14_Applied(current_site[1],
                                                  Classified[details[d]], branch))
            /\ Len(sites') = Len(sites) + 1
            /\ current_site' = Some(_make_placeholder_location(entry))

C14_NameThenDropIn ==
    (/\ pc = "merge"
     /\ Len(details) = 2
     /\ Kind(details[1]) = "site_name"
     /\ Kind(details[2]) = "drop_in") =>
        /\ Len(sites) = 1
        /\ sites[1].name = Some(Classified[details[1]].detail)
        /\ sites[1].availability[1].drop_in = Some(TRUE)

C14_TerminalDetails ==
    []C14_NameThenDropIn /\ [][C14_Step]_vars

C14_Witness ==
    /\ pc = "merge"
    /\ details = <<"Community Center", "No appointments necessary, walk-ins welcome">>
    /\ Len(sites) = 1
    /\ sites[1].name = Some("Community Center")
    /\ sites[1].availability = Some([drop_in |-> Some(TRUE), appointments |-> None])

\* C15: a combined address closes the current site and starts a placeholder
\* exactly when the current site has an address, in whatever part; either
\* way the site that is current afterwards has the street, city and zip of
\* the detail and the state AL, and without a boundary it keeps its name,
\* notes, contacts and availability.
C15_Step ==
    AtDetail("combined_address") =>
        LET cur == current_site[1]
            new == current_site'[1]
            groups == Classified[details[d]].combined_match[1]
            closes == cur.address # None
        IN  /\ sites' = IF closes THEN Append(sites, cur) ELSE sites
            /\ new.address =
                 Some(Address(Some(groups[1]), Some(groups[2]), Some("AL"),
                              Some(normalize_zip(groups[3]))))
            /\ IF closes
               THEN new = [_make_placeholder_location(entry) EXCEPT
                             !.address = new.address]
               ELSE /\ new.name = cur.name
                    /\ new.notes = cur.notes
                    /\ new.contact = cur.contact
                    /\ new.availability = cur.availability

C15_CombinedAddressBoundary ==
    [][C15_Step]_vars

C15_Witness ==
    /\ pc = "merge"
    /\ details = <<" Community Center,", "Anytown, AL 35006",
                   "123 Main St, Anytown, AL 35006">>
    /\ Len(sites) = 2
    /\ sites[1].name = Some("Community Center")
    /\ sites[1].address = Some(Address(None, Some("Anytown"), Some("AL"), Some("35006")))
    /\ sites[2].name = None
    /\ sites[2].address =
         Some(Address(Some("123 Main St"), Some("Anytown"), Some("AL"), Some("35006")))

\* C16: throughout the detail loop there is exactly one current site, and a
\* detail changes neither the content nor the order of the processed sites:
\* it can only append the former current site at their end, after which the
\* current site is a new placeholder that takes nothing from it.  Processed
\* sites change again only in the enrichment and the id assignment.
C16_OneCurrent ==
    pc = "loop" => Len(current_site) = 1

C16_Step ==
    /\ pc = "loop" =>
          /\ Len(sites') \in {Len(sites), Len(sites) + 1}
          /\ SubSeq(sites', 1, Len(sites)) = sites
          /\ Len(sites') = Len(sites) + 1 =>
                /\ \/ sites'[Len(sites')] = current_site[1]
                   \/ \E branch \in {"phone", "drop_in", "appointments"} :
                         /\ AtDetail(branch)
                         /\ sites'[Len(sites')] =
                              C14_Applied(current_site[1], Classified[details[d]], branch)
                /\ pc' = "loop" =>
                      [current_site'[1] EXCEPT !.address = None]
                         = _make_placeholder_location(entry)
    /\ pc \notin {"loop", "enrich", "add_id"} =>
          \A i \in 1..Len(sites) : i <= Len(sites') => sites'[i] = sites[i]

C16_CompletedFrozen ==
    []C16_OneCurrent /\ [][C16_Step]_vars

C16_Witness ==
    /\ pc = "loop"
    /\ d = 4
    /\ details = <<"123 Main St", "(205) 555-0100", "Locations to be determined">>
    /\ Len(sites) = 1
    /\ sites[1].notes = None
    /\ PhoneContacts(sites[1]) # << >>
    /\ current_site[1].notes = Some(<<"Locations to be determined">>)

\* C17: a detail gets exactly one transition, that of the earliest pattern
\* it matches in the order combined address, street, city-state-zip, phone,
\* drop-in, appointments, ignore, ignore-as-name, fallback.  A detail that
\* matches the street and the phone pattern is a street address only: no
\* contact is added and it closes the site only by the street rule; a
\* detail that matches a terminal pattern is never handled as ignore.
C17_Matches(m, p) ==
    CASE p = 1 -> m.combined_match # None
      [] p = 2 -> m.street_match
      [] p = 3 -> m.city_state_zip_match # None
      [] p = 4 -> m.phone_match
      [] p = 5 -> m.drop_in_match
      [] p = 6 -> m.appointments_match
      [] p = 7 -> m.ignore_match
      [] p = 8 -> m.ignore_name_match
      [] p = 9 -> TRUE

C17_First(m) ==
    CHOOSE p \in 1..9 : C17_Matches(m, p) /\ \A q \in 1..(p - 1) : ~C17_Matches(m, q)

C17_Transition(p, cur) ==
    CASE p = 1 -> "combined_address"
      [] p = 2 -> "street_address"
      [] p = 3 -> "city_state_zip"
      [] p = 4 -> "phone"
      [] p = 5 -> "drop_in"
      [] p = 6 -> "appointments"
      [] p = 7 -> "ignore"
      [] p = 8 -> "additional_note"
      [] p = 9 -> IF cur.name # None /\ cur.name[1] # ""
                  THEN "additional_note" ELSE "site_name"

C17_Step ==
    (pc = "loop" /\ d <= Len(details)) =>
        LET cur == current_site[1]
            m == Classified[details[d]]
            st == Dispatch(C17_Transition(C17_First(m), cur), cur, sites, entry, m)
        IN  /\ current_site' = Some(st.current_site)
            /\ sites' = st.sites
            /\ (m.combined_match = None /\ m.street_match /\ m.phone_match) =>
                  /\ current_site'[1].address[1].street1 = Some(m.detail)
                  /\ PhoneContacts(current_site'[1]) \in {<< >>, PhoneContacts(cur)}
                  /\ sites' # sites =>
                        (cur.address # None /\ cur.address[1].street1 # None)
            /\ ((m.phone_match \/ m.drop_in_match \/ m.appointments_match)
                  /\ m.ignore_match) =>
                  ~(sites' = sites
                      /\ current_site' = Some(_make_placeholder_location(entry)))

C17_OneBranch ==
    (pc = "loop" /\ d <= Len(details)) =>
        Cardinality({b \in {"combined_address", "street_address", "city_state_zip",
                            "phone", "drop_in", "appointments", "ignore",
                            "additional_note", "site_name"} : AtDetail(b)}) = 1

C17_FirstMatchWins ==
    []C17_OneBranch /\ [][C17_Step]_vars

C17_Witness ==
    /\ pc = "merge"
    /\ details = <<"(205) 555-0100", "123 Main St">>
    /\ Classified["123 Main St"].street_match
    /\ Classified["123 Main St"].phone_match
    /\ Len(sites) = 2
    /\ sites[2].address = Some(Address(Some("123 Main St"), None, Some("AL"), None))
    /\ sites[2].contact = None \/ PhoneContacts(sites[2]) = << >>

\* C18: when the entry's link normalizes to a URL, every returned record
\* has exactly one booking website contact, added after all its phone
\* contacts, and a parent_organization exactly when the host of the URL is
\* a known provider's; when it does not, contacts and parent_organization
\* are as the detail loop left them.
C18_Url == IF entry.link = None THEN None ELSE normalize_url(entry.link[1])

C18_HasUrl == C18_Url # None /\ C18_Url[1].url # ""

C18_Step ==
    (pc = "enrich" /\ entry.link # None) =>
        LET site == sites[k]
            old == IF site.contact = None THEN << >> ELSE site.contact[1]
        IN  /\ \A i \in 1..Len(sites) : i # k => sites'[i] = sites[i]
            /\ IF C18_HasUrl
               THEN sites'[k] =
                      [site EXCEPT
                         !.contact = Some(old \o <<Contact("booking", None, C18_Url)>>),
                         !.parent_organization =
                            IF C18_Url[1].host \in DOMAIN _URL_HOST_TO_PROVIDER
                            THEN Some([id |-> _URL_HOST_TO_PROVIDER[C18_Url[1].host]])
                            ELSE None]
               ELSE sites'[k] = site

C18_Returned ==
    \A i \in 1..Len(Returned) :
        LET r == Returned[i]
            contacts == IF r.contact = None THEN << >> ELSE r.contact[1]
            n == Len(contacts)
        IN  IF C18_HasUrl
            THEN /\ n >= 1
                 /\ contacts[n] = Contact("booking", None, C18_Url)
                 /\ \A c \in 1..(n - 1) :
                       contacts[c].website = None /\ contacts[c].phone # None
                 /\ r.parent_organization # None
                       <=> C18_Url[1].host \in DOMAIN _URL_HOST_TO_PROVIDER
            ELSE /\ \A c \in 1..n : contacts[c].website = None
                 /\ r.parent_organization = None

C18_Enrichment ==
    []C18_Returned /\ [][C18_Step]_vars

C18_Witness ==
    /\ pc = "merge"
    /\ entry.link = Some("https://www.cvs.com/vaccine")
    /\ Len(sites) = 2
    /\ Len(sites[1].contact[1]) = 2
    /\ sites[1].contact[1][1].phone = Some("(205) 555-0100")
    /\ sites[1].contact[1][2].website # None
    /\ Len(sites[2].contact[1]) = 1
    /\ sites[1].parent_organization = Some([id |-> "cvs"])
    /\ sites[2].parent_organization = Some([id |-> "cvs"])

\* C19: when a record has a name, street1, city, state or zip, its id is a
\* function of these five values alone: records that agree on them and
\* differ in contacts, availability, notes or parent_organization have the
\* same id, and the driver does not write the second of them.
C19_Five(r) ==
    <<r.name,
      IF r.address = None THEN None ELSE r.address[1].street1,
      IF r.address = None THEN None ELSE r.address[1].city,
      IF r.address = None THEN None ELSE r.address[1].state,
      IF r.address = None THEN None ELSE r.address[1].zip>>

C19_Identified(r) ==
    \E i \in 1..5 : C19_Five(r)[i] # None /\ C19_Five(r)[i][1] # ""

C19_FiveDigest(r) ==
    LET kept == SelectSeq(C19_Five(r), LAMBDA o : o # None /\ o[1] # "")
    IN  Md5HexDigest(Join([i \in 1..Len(kept) |-> kept[i][1]]))

C19_SameId ==
    \A r1 \in C6_Records :
        C19_Identified(r1) =>
            /\ r1.id = "al_jefferson:" \o C19_FiveDigest(r1)
            /\ \A r2 \in C6_Records :
                  C19_Five(r1) = C19_Five(r2) => r1.id = r2.id

C19_SecondDropped ==
    (/\ pc = "merge"
     /\ sites # << >>
     /\ C19_Identified(sites[j])
     /\ \E i \in 1..Len(fout) : C19_Five(fout[i]) = C19_Five(sites[j])) =>
        UNCHANGED fout

C19_IdIgnoresOtherFields ==
    []C19_SameId /\ [][C19_SecondDropped]_vars

C19_Witness ==
    /\ pc = "merge"
    /\ line = 2
    /\ j = 1
    /\ Len(fout) = 1
    /\ C19_Identified(sites[1])
    /\ C19_Five(fout[1]) = C19_Five(sites[1])
    /\ fout[1].contact # sites[1].contact
    /\ fout[1].parent_organization # sites[1].parent_organization
    /\ fout[1].id = sites[1].id

\* C20: a detail appends at most one site to the processed sites, and the
\* number of records normalize returns is at least the number of phone,
\* drop-in and appointments details and at most the number of details.
C20_Terminals(n) ==
    Cardinality({i \in 1..n : Kind(details[i]) \in {"phone", "drop_in", "appointments"}})

C20_Bounds ==
    /\ pc = "loop" =>
          /\ Len(sites) <= d - 1
          /\ Len(sites) >= C20_Terminals(d - 1)
    /\ pc \in {"enrich", "add_id", "merge"} =>
          /\ Len(sites) <= Len(details)
          /\ Len(sites) >= C20_Terminals(Len(details))

C20_Step ==
    (pc = "loop" /\ d <= Len(details)) => Len(sites') <= Len(sites) + 1

C20_BoundedOutput ==
    []C20_Bounds /\ [][C20_Step]_vars

C20_Witness ==
    /\ pc = "merge"
    /\ Len(details) = 3
    /\ C20_Terminals(3) = 1
    /\ Len(Returned) = 2

====
